---- MODULE Spec2Model ----
(***************************************************************************)
(* Model of scripts/json2tqw.py: the converter of a JSON world document    *)
(* into the TOML-like Tunaquest World (TQW) text format.                   *)
(*                                                                         *)
(* Python values are modelled as follows.                                  *)
(*   - a dict is a function from its keys (strings) to values; the empty   *)
(*     dict is << >>; d.get(k, x) is Get(d, k, x) and  k in d  is          *)
(*     k \in DOMAIN d;                                                     *)
(*   - a list is a sequence; a str is a TLA+ string, + is \o;              *)
(*   - where the code inspects the type of a value at run time (an NPC's   *)
(*     pronouns and movement, a dialog entry, a dialog choice) the value   *)
(*     carries its type: PyStr(s), PyDict(d), PyList(l), PyNone;           *)
(*   - the `pronouns` JSON object is the sequence of its (key, value)      *)
(*     pairs, in document order, which is the order a dict iterates in;    *)
(*   - the text printed to a stream is the sequence of the arguments of    *)
(*     the print calls, each of which print ends with a newline;           *)
(*   - the output file on disk is the number of bytes it holds: they are   *)
(*     the first bytes of the text printed to the file object (the texts   *)
(*     of the model are ASCII, a character is a byte).                     *)
(* A TLA+ string cannot be taken apart, so the characters of the strings   *)
(* the code iterates or wraps are given by the table Chars, and lower()    *)
(* by the table Lower.                                                     *)
(***************************************************************************)
EXTENDS Integers, Sequences, FiniteSets, TLC

VARIABLES json_data, pc, fp, pending, buffered, disk, stderr, eg, ri, ei, ii, ki,
          ni, di, text_list, out

vars == <<json_data, pc, fp, pending, buffered, disk, stderr, eg, ri, ei, ii, ki,
          ni, di, text_list, out>>

(***************************************************************************)
(* Bounds of the model.                                                    *)
(***************************************************************************)
MaxRooms == 2
MaxNpcs == 2
MaxList == 3

(***************************************************************************)
(* Python built-ins.                                                       *)
(***************************************************************************)
Get(d, k, default) == IF k \in DOMAIN d THEN d[k] ELSE default

PyStr(s) == [type |-> "str", val |-> s]
PyDict(d) == [type |-> "dict", val |-> d]
PyList(l) == [type |-> "list", val |-> l]
PyNone == [type |-> "NoneType"]

isinstance_str(v) == v.type = "str"

Rep(c, n) == [i \in 1..n |-> c]

\* ''.join(cs)
RECURSIVE Str(_)
Str(cs) ==
    IF Len(cs) = 0 THEN ""
    ELSE IF Len(cs) = 1 THEN cs[1]
    ELSE LET h == Len(cs) \div 2
         IN  Str(SubSeq(cs, 1, h)) \o Str(SubSeq(cs, h + 1, Len(cs)))

(***************************************************************************)
(* The texts of the model's documents.                                     *)
(***************************************************************************)
LongWordsChars == Rep("a", 70) \o <<" ", " ">> \o Rep("b", 70) \o <<"\n">> \o Rep("c", 10)
LongWords == Str(LongWordsChars)
LongWordChars == <<"x", " ">> \o Rep("y", 130)
LongWord == Str(LongWordChars)
\* Names long enough for the output to outgrow the buffers of the file object.
WideName == Str(Rep("w", 5000))
GiantName == Str(Rep("g", 9000))

Chars(s) ==
    CASE s = "" -> << >>
      [] s = "yes" -> <<"y", "e", "s">>
      [] s = "no" -> <<"n", "o">>
      [] s = "a cave" -> <<"a", " ", "c", "a", "v", "e">>
      [] s = " a  lamp " -> <<" ", "a", " ", " ", "l", "a", "m", "p", " ">>
      [] s = "a door" -> <<"a", " ", "d", "o", "o", "r">>
      [] s = "an elf" -> <<"a", "n", " ", "e", "l", "f">>
      [] s = "you go" -> <<"y", "o", "u", " ", "g", "o">>
      [] s = LongWords -> LongWordsChars
      [] s = LongWord -> LongWordChars

Lower(s) ==
    CASE s = "" -> ""
      [] s = "Cave" -> "cave"
      [] s = "HALL" -> "hall"
      [] s = "pit" -> "pit"

(***************************************************************************)
(* textwrap.wrap(text, 120) for texts of letters, spaces and newlines      *)
(* (no tabs, no hyphens): whitespace is replaced by spaces, the text is    *)
(* split into chunks (words and runs of spaces) and the chunks are packed  *)
(* greedily into lines, a word longer than the width being broken.         *)
(***************************************************************************)
WrapWidth == 120

ReplaceWhitespace(cs) == [i \in 1..Len(cs) |-> IF cs[i] = "\n" THEN " " ELSE cs[i]]

IsBlank(chunk) == \A i \in 1..Len(chunk) : chunk[i] = " "

\* The length of the first chunk of cs: the characters up to the first one
\* that is a space where cs[1] is not, or is not one where cs[1] is.
RunLen(cs) ==
    LET ends == {n \in 1..Len(cs) :
                    n = Len(cs) \/ ((cs[n + 1] = " ") # (cs[1] = " "))}
    IN  CHOOSE n \in ends : \A m \in ends : n <= m

RECURSIVE Split(_)
Split(cs) ==
    IF Len(cs) = 0 THEN << >>
    ELSE LET n == RunLen(cs)
         IN  <<SubSeq(cs, 1, n)>> \o Split(SubSeq(cs, n + 1, Len(cs)))

RECURSIVE Fit(_, _, _)
Fit(chunks, n, cur_len) ==
    IF n < Len(chunks) /\ cur_len + Len(chunks[n + 1]) <= WrapWidth
    THEN Fit(chunks, n + 1, cur_len + Len(chunks[n + 1]))
    ELSE <<n, cur_len>>

RECURSIVE Join(_)
Join(chunks) == IF Len(chunks) = 0 THEN "" ELSE Str(chunks[1]) \o Join(Tail(chunks))

RECURSIVE WrapChunks(_, _)
WrapChunks(chunks, lines) ==
    IF Len(chunks) = 0 THEN lines
    ELSE LET c0 == IF IsBlank(chunks[1]) /\ Len(lines) > 0 THEN Tail(chunks) ELSE chunks
             f == Fit(c0, 0, 0)
             taken == SubSeq(c0, 1, f[1])
             rest == SubSeq(c0, f[1] + 1, Len(c0))
             long == Len(rest) > 0 /\ Len(rest[1]) > WrapWidth
             space_left == WrapWidth - f[2]
             cur1 == IF long THEN Append(taken, SubSeq(rest[1], 1, space_left)) ELSE taken
             rest1 == IF long
                      THEN <<SubSeq(rest[1], space_left + 1, Len(rest[1]))>> \o Tail(rest)
                      ELSE rest
             cur2 == IF Len(cur1) > 0 /\ IsBlank(cur1[Len(cur1)])
                     THEN SubSeq(cur1, 1, Len(cur1) - 1)
                     ELSE cur1
         IN  WrapChunks(rest1, IF Len(cur2) > 0 THEN Append(lines, Join(cur2)) ELSE lines)

wrap(text) == WrapChunks(Split(ReplaceWhitespace(Chars(text))), << >>)

(***************************************************************************)
(* The two list formatters.                                                *)
(***************************************************************************)
RECURSIVE InlineFrom(_, _)
InlineFrom(text_list_, itemNum) ==
    IF itemNum >= Len(text_list_) THEN ""
    ELSE "\"" \o text_list_[itemNum + 1] \o "\""
         \o (IF itemNum + 1 < Len(text_list_) THEN ", " ELSE "")
         \o InlineFrom(text_list_, itemNum + 1)

\* A formatter that puts the separator after the last element too.
format_inline_text_list_comma(text_list_) ==
    "[" \o Str([i \in 1..Len(text_list_) |-> "\"" \o text_list_[i] \o "\", "]) \o "]"

format_inline_text_list(text_list_) == "[" \o InlineFrom(text_list_, 0) \o "]"

\* Iterating a value: a str yields its characters, a list its elements.
Iter(t) == IF t.type = "str" THEN Chars(t.val) ELSE t.val

\* op(t): the default formatter quotes str(t); the other one is
\* format_inline_text_list, which iterates t.
ApplyOp(op, t) ==
    IF op = "None" THEN "\"" \o t \o "\"" ELSE format_inline_text_list(Iter(t))

RECURSIVE MultilineFrom(_, _, _)
MultilineFrom(text_list_, op, i) ==
    IF i > Len(text_list_) THEN ""
    ELSE "\t" \o ApplyOp(op, text_list_[i]) \o ",\n" \o MultilineFrom(text_list_, op, i + 1)

\* A formatter that opens every list, the empty one too, with a newline.
format_multiline_text_list_newline(text_list_, op) ==
    "[\n" \o MultilineFrom(text_list_, op, 1) \o "]"

format_multiline_text_list(text_list_, op) ==
    "[" \o (IF Len(text_list_) > 0 THEN "\n" ELSE "")
        \o MultilineFrom(text_list_, op, 1) \o "]"

(***************************************************************************)
(* The lines main() prints for each part of the document.                  *)
(***************************************************************************)
\* print(key + ' = "' + value + '"')
Quoted(key, value) == key \o " = \"" \o value \o "\""

\* print(key + " = '''"), the wrapped text line by line, print("'''")
TextBlock(key, text) == <<key \o " = '''">> \o wrap(text) \o <<"'''">>

PreambleLines == <<"format = \"TUNA\"", "type = \"DATA\"", "">>

WARN == "WARN: input is missing key 'start'; world.start will be undefined in output"

WorldLines(doc) ==
    <<"[world]",
      IF "start" \in DOMAIN doc THEN Quoted("start", doc.start) ELSE "start = \"\"",
      "", "">>

WorldWarnings(doc) == IF "start" \in DOMAIN doc THEN << >> ELSE <<WARN>>

RoomLines(r) ==
    <<"# " \o Lower(Get(r, "label", "")),
      "[[rooms]]",
      Quoted("label", Get(r, "label", "")),
      Quoted("name", Get(r, "name", ""))>>
    \o TextBlock("description", Get(r, "description", ""))
    \o <<"">>

ExitLines(e) ==
    <<"[[rooms.exits]]",
      "aliases = " \o format_inline_text_list(Get(e, "aliases", << >>)),
      Quoted("destLabel", Get(e, "destLabel", "")),
      Quoted("description", Get(e, "description", ""))>>
    \o TextBlock("travelMessage", Get(e, "travelMessage", ""))
    \o <<"">>

\* What an item prints before the description text is evaluated.
ItemHeadLines(it) ==
    <<"[[rooms.items]]",
      Quoted("label", Get(it, "label", "")),
      "aliases = " \o format_inline_text_list(Get(it, "aliases", << >>)),
      Quoted("name", Get(it, "name", "")),
      "description = '''">>

\* The text the item's description block wraps: the code reads it from the
\* loop variable of the exits loop, `e` being the exit that variable holds.
ItemDescriptionText(it, e) == Get(e, "description", "")

ItemLines(it, e) ==
    ItemHeadLines(it) \o wrap(ItemDescriptionText(it, e)) \o <<"'''", "">>

PronounFields == <<"nominative", "objective", "possessive", "determiner", "reflexive">>

PronounFieldLines(ps) == [i \in 1..Len(PronounFields) |->
                             Quoted(PronounFields[i], Get(ps, PronounFields[i], ""))]

PronounSetLines(k, ps) ==
    <<"[pronouns.\"" \o k \o "\"]">> \o PronounFieldLines(ps) \o <<"">>

\* pn = npc.get('pronouns', "")
NpcPronouns(npc) == Get(npc, "pronouns", PyStr(""))

\* A main() that never prints the pronoun table.
pronouns_after_never(pn) == FALSE

pronouns_after(pn) == ~isinstance_str(pn)

NpcPronounTable(pn) == <<"[npcs.pronouns]">> \o PronounFieldLines(pn.val) \o <<"">>

\* A lookup whose default is None: no table for an NPC without `movement`.
NpcMovement_none(npc) == Get(npc, "movement", PyNone)

\* mv = npc.get('movement', {})
NpcMovement(npc) == Get(npc, "movement", PyDict(<< >>))

MovementListLines(m, key) ==
    IF key \in DOMAIN m
    THEN <<key \o " = " \o format_multiline_text_list(m[key], "None")>>
    ELSE << >>

MovementLines(mv) ==
    IF mv.type # "NoneType"
    THEN <<"[npcs.movement]", Quoted("action", Get(mv.val, "action", "STATIC"))>>
         \o MovementListLines(mv.val, "path")
         \o MovementListLines(mv.val, "allowedRooms")
         \o MovementListLines(mv.val, "forbiddenRooms")
         \o <<"">>
    ELSE << >>

NpcLines(npc) ==
    LET pn == NpcPronouns(npc)
    IN  <<"[[npcs]]",
          Quoted("label", Get(npc, "label", "")),
          "aliases = " \o format_multiline_text_list(Get(npc, "aliases", << >>), "None"),
          Quoted("name", Get(npc, "name", "")),
          Quoted("start", Get(npc, "start", ""))>>
        \o (IF isinstance_str(pn) THEN <<Quoted("pronouns", pn.val)>> ELSE << >>)
        \o TextBlock("description", Get(npc, "description", ""))
        \o <<"">>
        \o (IF pronouns_after(pn) THEN NpcPronounTable(pn) ELSE << >>)
        \o MovementLines(NpcMovement(npc))

\* if isinstance(dia, str): dia = {'content': dia}
DialogDict(dia) == IF isinstance_str(dia) THEN [content |-> dia.val] ELSE dia.val

\* A main() that prints an empty default for an absent dialog field.
DialogFieldLines_default(d, key) == <<Quoted(key, Get(d, key, ""))>>

DialogFieldLines(d, key) ==
    IF key \in DOMAIN d THEN <<Quoted(key, d[key])>> ELSE << >>

DialogLines(dia) ==
    LET d == DialogDict(dia)
    IN  <<"[[npcs.dialog]]">>
        \o DialogFieldLines(d, "label")
        \o DialogFieldLines(d, "action")
        \o DialogFieldLines(d, "content")
        \o DialogFieldLines(d, "response")
        \o (IF "choices" \in DOMAIN d
            THEN <<"choices = "
                   \o format_multiline_text_list(d.choices, "format_inline_text_list")>>
            ELSE << >>)
        \o <<"">>

(***************************************************************************)
(* The input documents of the model.                                       *)
(***************************************************************************)
Seqs(S, n) == UNION {[1..k -> S] : k \in 0..n}

\* An optional key: o is << >> (the key is absent) or <<v>> (its value is v).
Opt(k, o) == IF Len(o) = 0 THEN << >> ELSE (k :> o[1])

Doc(start, rooms, pronouns, npcs) ==
    Opt("start", start) @@ Opt("rooms", rooms) @@ Opt("pronouns", pronouns)
        @@ Opt("npcs", npcs)

ExitNorth == [aliases |-> <<"north", "n">>, destLabel |-> "HALL",
              description |-> "a door", travelMessage |-> "you go"]
ExitDown == [destLabel |-> "pit", travelMessage |-> LongWord]

ItemLamp == [label |-> "LAMP", aliases |-> <<"light">>, name |-> "lamp",
             description |-> " a  lamp "]
ItemBare == << >>

RoomFull == [label |-> "Cave", name |-> "The Cave", description |-> "a cave",
             exits |-> <<ExitNorth, ExitDown>>, items |-> <<ItemLamp, ItemBare>>]
RoomItemsOnly == [label |-> "HALL", description |-> LongWords,
                  items |-> <<ItemBare, ItemLamp>>]
RoomEmptyExits == [label |-> "pit", exits |-> << >>, items |-> <<ItemLamp>>]
RoomExitsOnly == [name |-> "Hall", exits |-> <<ExitDown, ExitNorth>>]
RoomBare == << >>
RoomWide == [label |-> "pit", name |-> WideName, exits |-> <<ExitNorth>>,
             items |-> <<ItemBare>>]

RoomSet == {RoomFull, RoomItemsOnly, RoomEmptyExits, RoomExitsOnly, RoomBare, RoomWide}

SheHer == <<"she/her", [nominative |-> "she", objective |-> "her", possessive |-> "hers",
                        determiner |-> "her", reflexive |-> "herself"]>>
It == <<"it", [nominative |-> "it"]>>

NpcElf == [label |-> "ELF", aliases |-> <<"elf", "sprite">>, name |-> "Elf",
           start |-> "Cave", pronouns |-> PyStr("she/her"), description |-> "an elf",
           movement |-> PyDict([action |-> "PATROL", path |-> <<"Cave", "HALL">>,
                                allowedRooms |-> << >>, forbiddenRooms |-> <<"pit">>]),
           dialog |-> <<PyStr("Hello!"),
                        PyDict([label |-> "ASK", action |-> "CHOICE", content |-> "Well?",
                                choices |-> <<PyStr("yes"), PyStr("no")>>])>>]
NpcBare == << >>
NpcOrc == [label |-> "ORC",
           pronouns |-> PyDict([nominative |-> "he", objective |-> "him"]),
           movement |-> PyNone,
           dialog |-> <<PyDict([action |-> "END", response |-> "Bye"]),
                        PyDict([choices |-> <<PyList(<<"yes", "ASK">>),
                                              PyList(<<"no", "END">>)>>])>>]
NpcBat == [name |-> "Bat", pronouns |-> PyDict(<< >>), description |-> LongWords,
           movement |-> PyDict([allowedRooms |-> <<"Cave">>]), dialog |-> << >>]
NpcRock == [label |-> "ROCK", pronouns |-> PyStr("it"), movement |-> PyDict(<< >>),
            dialog |-> <<PyDict(<< >>), PyDict([content |-> "...", choices |-> << >>])>>]
NpcGuard == [aliases |-> << >>, movement |-> PyDict([action |-> "PATROL", path |-> << >>]),
             dialog |-> <<PyStr("")>>]

NpcGiant == [label |-> "GIANT", name |-> GiantName, pronouns |-> PyStr("it")]

NpcSet == {NpcElf, NpcBare, NpcOrc, NpcBat, NpcRock, NpcGuard, NpcGiant}

Starts == {<< >>, <<"Cave">>}

DocSet ==
    {Doc(s, << >>, << >>, << >>) : s \in Starts}
    \cup {Doc(s, <<rs>>, p, n) : s \in Starts, rs \in Seqs(RoomSet, MaxRooms),
                                 p \in {<< >>, <<<<SheHer, It>>>>},
                                 n \in {<< >>, <<<<NpcElf>>>>}}
    \cup {Doc(s, r, p, <<ns>>) : s \in Starts, r \in {<< >>, <<<<RoomExitsOnly>>>>},
                                 p \in {<< >>, <<<< >>>>, <<<<It>>>>},
                                 ns \in Seqs(NpcSet, MaxNpcs)}

\* The lists the formatters are applied to on their own.
FmtLists == Seqs({"n", "north", "go north", ""}, MaxList)

(***************************************************************************)
(* main() as a state machine.  A state of the program is the record of     *)
(* its variables: the parsed document, the position pc, the text printed   *)
(* to the output file object (fp), the bytes of it still pending in the    *)
(* text layer of the file object (pending), the bytes held by its          *)
(* buffered writer (buffered), the number of bytes that reached the file   *)
(* on disk (disk), the text printed to sys.stderr, the loop variable eg of *)
(* the exits loop (<< >> while it is unbound, <<e>> when it holds the exit *)
(* e) and the positions of the loops over rooms, exits, items, pronoun     *)
(* sets, npcs and dialog.                                                  *)
(***************************************************************************)
State(doc) ==
    [json_data |-> doc, pc |-> "open", fp |-> << >>, pending |-> 0, buffered |-> 0,
     disk |-> 0, stderr |-> << >>,
     eg |-> << >>, ri |-> 0, ei |-> 0, ii |-> 0, ki |-> 0, ni |-> 0, di |-> 0]

Rooms(s) == Get(s.json_data, "rooms", << >>)
Exits(s) == Get(Rooms(s)[s.ri], "exits", << >>)
Items(s) == Get(Rooms(s)[s.ri], "items", << >>)
PronounSets(s) == Get(s.json_data, "pronouns", << >>)
Npcs(s) == Get(s.json_data, "npcs", << >>)
Dialogs(s) == Get(Npcs(s)[s.ni], "dialog", << >>)

(***************************************************************************)
(* The file object open(output_file, 'w') returns is a text layer over a   *)
(* buffered writer over the file.  The text layer keeps what is written    *)
(* to it pending, up to ChunkSize bytes, and hands the pending bytes to    *)
(* the buffered writer when a write would exceed ChunkSize or has reached  *)
(* it.  The buffered writer keeps what fits in its buffer of BufferSize    *)
(* bytes (the block size of the file's filesystem); given more it writes   *)
(* its buffer to the file, and then the new bytes too when they are more   *)
(* than a buffer.                                                          *)
(***************************************************************************)
ChunkSize == 8192
BufferSize == 4096

\* BufferedWriter.write of m bytes
BufferedWrite(s, m) ==
    IF m <= BufferSize - s.buffered
    THEN [s EXCEPT !.buffered = @ + m]
    ELSE IF m > BufferSize
    THEN [s EXCEPT !.disk = @ + s.buffered + m, !.buffered = 0]
    ELSE [s EXCEPT !.disk = @ + s.buffered, !.buffered = m]

\* TextIOWrapper.write of a str of n bytes
TextWrite(s, n) ==
    LET s1 == IF s.pending + n > ChunkSize
              THEN [BufferedWrite(s, s.pending) EXCEPT !.pending = n]
              ELSE [s EXCEPT !.pending = @ + n]
    IN  IF s1.pending >= ChunkSize
        THEN [BufferedWrite(s1, s1.pending) EXCEPT !.pending = 0]
        ELSE s1

\* print(line, file=fp): the line is written, then the newline.
PrintLine(s, line) ==
    [TextWrite(TextWrite(s, Len(line)), 1) EXCEPT !.fp = Append(@, line)]

\* The print calls of the lines, in order; printed is the number of lines
\* printed to fp before the first of them.
RECURSIVE WriteFrom(_, _, _)
WriteFrom(s, lines, printed) ==
    IF Len(s.fp) - printed = Len(lines) THEN s
    ELSE WriteFrom(PrintLine(s, lines[Len(s.fp) - printed + 1]), lines, printed)

Write(s, lines) == WriteFrom(s, lines, Len(s.fp))

\* fp.close(): the pending bytes go to the buffered writer, and its buffer
\* to the file.
CloseFile(s) ==
    LET s1 == [BufferedWrite(s, s.pending) EXCEPT !.pending = 0]
    IN  [s1 EXCEPT !.disk = @ + s1.buffered, !.buffered = 0]

\* An exception leaves the `with` block: the file is closed, which writes
\* the buffered text, and main() ends with the exception.
Raise(s) == [CloseFile(s) EXCEPT !.pc = "raised"]

\* with open(output_file, 'w') as fp: the file is truncated; the preamble
OpenOp(s) ==
    Write([s EXCEPT !.pc = "world", !.pending = 0, !.buffered = 0, !.disk = 0],
          PreambleLines)

\* A main() that reads json_data['start'] without the test: KeyError.
WorldOp_raise(s) ==
    IF "start" \in DOMAIN s.json_data
    THEN [Write(s, WorldLines(s.json_data)) EXCEPT !.pc = "rooms"]
    ELSE Raise(Write(s, <<"[world]">>))

WorldOp(s) ==
    [Write(s, WorldLines(s.json_data)) EXCEPT
        !.pc = "rooms", !.stderr = @ \o WorldWarnings(s.json_data)]

NextRoomOp(s) ==
    [Write(s, RoomLines(Rooms(s)[s.ri + 1])) EXCEPT !.pc = "exits", !.ri = @ + 1, !.ei = 0]

EndRoomsOp(s) == [s EXCEPT !.pc = "pronouns", !.ki = 0]

NextExitOp(s) ==
    LET e == Exits(s)[s.ei + 1]
    IN  [Write(s, ExitLines(e)) EXCEPT !.ei = @ + 1, !.eg = <<e>>]

EndExitsOp(s) == [s EXCEPT !.pc = "items", !.ii = 0]

NextItemOp(s) ==
    [Write(s, ItemLines(Items(s)[s.ii + 1], s.eg[1])) EXCEPT !.ii = @ + 1]

\* The item's description reads eg while no exit has been iterated yet:
\* UnboundLocalError, after the item's first five lines were printed.
ItemRaiseOp(s) ==
    Raise([Write(s, ItemHeadLines(Items(s)[s.ii + 1])) EXCEPT !.ii = @ + 1])

EndItemsOp(s) == [Write(s, <<"">>) EXCEPT !.pc = "rooms"]

NextPronounSetOp(s) ==
    LET kv == PronounSets(s)[s.ki + 1]
    IN  [Write(s, PronounSetLines(kv[1], kv[2])) EXCEPT !.ki = @ + 1]

EndPronounsOp(s) ==
    [Write(s, IF Len(PronounSets(s)) > 0 THEN <<"">> ELSE << >>) EXCEPT
        !.pc = "npcs", !.ni = 0]

NextNpcOp(s) ==
    [Write(s, NpcLines(Npcs(s)[s.ni + 1])) EXCEPT !.pc = "dialog", !.ni = @ + 1, !.di = 0]

NextDialogOp(s) == [Write(s, DialogLines(Dialogs(s)[s.di + 1])) EXCEPT !.di = @ + 1]

EndDialogsOp(s) == [s EXCEPT !.pc = "npcs"]

\* The `with` block ends: the file is closed and main() returns.
CloseOp(s) == [CloseFile(s) EXCEPT !.pc = "done"]

CanNextRoom(s) == s.pc = "rooms" /\ s.ri < Len(Rooms(s))
CanEndRooms(s) == s.pc = "rooms" /\ s.ri = Len(Rooms(s))
CanNextExit(s) == s.pc = "exits" /\ s.ei < Len(Exits(s))
CanEndExits(s) == s.pc = "exits" /\ s.ei = Len(Exits(s))
CanNextItem(s) == s.pc = "items" /\ s.ii < Len(Items(s)) /\ Len(s.eg) > 0
CanItemRaise(s) == s.pc = "items" /\ s.ii < Len(Items(s)) /\ Len(s.eg) = 0
CanEndItems(s) == s.pc = "items" /\ s.ii = Len(Items(s))
CanNextPronounSet(s) == s.pc = "pronouns" /\ s.ki < Len(PronounSets(s))
CanEndPronouns(s) == s.pc = "pronouns" /\ s.ki = Len(PronounSets(s))
CanNextNpc(s) == s.pc = "npcs" /\ s.ni < Len(Npcs(s))
CanClose(s) == s.pc = "npcs" /\ s.ni = Len(Npcs(s))
CanNextDialog(s) == s.pc = "dialog" /\ s.di < Len(Dialogs(s))
CanEndDialogs(s) == s.pc = "dialog" /\ s.di = Len(Dialogs(s))

Ended(s) == s.pc \in {"done", "raised"}

\* One step of main() from the state s, and main() run to its end.
StepOf(s) ==
    CASE s.pc = "open" -> OpenOp(s)
      [] s.pc = "world" -> WorldOp(s)
      [] CanNextRoom(s) -> NextRoomOp(s)
      [] CanEndRooms(s) -> EndRoomsOp(s)
      [] CanNextExit(s) -> NextExitOp(s)
      [] CanEndExits(s) -> EndExitsOp(s)
      [] CanNextItem(s) -> NextItemOp(s)
      [] CanItemRaise(s) -> ItemRaiseOp(s)
      [] CanEndItems(s) -> EndItemsOp(s)
      [] CanNextPronounSet(s) -> NextPronounSetOp(s)
      [] CanEndPronouns(s) -> EndPronounsOp(s)
      [] CanNextNpc(s) -> NextNpcOp(s)
      [] CanClose(s) -> CloseOp(s)
      [] CanNextDialog(s) -> NextDialogOp(s)
      [] CanEndDialogs(s) -> EndDialogsOp(s)

RECURSIVE Run(_)
Run(s) == IF Ended(s) THEN s ELSE Run(StepOf(s))

(***************************************************************************)
(* The actions.                                                            *)
(***************************************************************************)
S == [json_data |-> json_data, pc |-> pc, fp |-> fp, pending |-> pending,
      buffered |-> buffered, disk |-> disk, stderr |-> stderr,
      eg |-> eg, ri |-> ri, ei |-> ei, ii |-> ii, ki |-> ki, ni |-> ni, di |-> di]

Becomes(t) ==
    /\ json_data' = t.json_data
    /\ pc' = t.pc
    /\ fp' = t.fp
    /\ pending' = t.pending
    /\ buffered' = t.buffered
    /\ disk' = t.disk
    /\ stderr' = t.stderr
    /\ eg' = t.eg
    /\ ri' = t.ri
    /\ ei' = t.ei
    /\ ii' = t.ii
    /\ ki' = t.ki
    /\ ni' = t.ni
    /\ di' = t.di
    /\ UNCHANGED <<text_list, out>>

\* The variables hold the state t.
Holds(t) ==
    /\ json_data = t.json_data
    /\ pc = t.pc
    /\ fp = t.fp
    /\ pending = t.pending
    /\ buffered = t.buffered
    /\ disk = t.disk
    /\ stderr = t.stderr
    /\ eg = t.eg
    /\ ri = t.ri
    /\ ei = t.ei
    /\ ii = t.ii
    /\ ki = t.ki
    /\ ni = t.ni
    /\ di = t.di

Init ==
    /\ \E doc \in DocSet : Holds(State(doc))
    /\ text_list = << >>
    /\ out = ""

Open == pc = "open" /\ Becomes(OpenOp(S))
World == pc = "world" /\ Becomes(WorldOp(S))
NextRoom == CanNextRoom(S) /\ Becomes(NextRoomOp(S))
EndRooms == CanEndRooms(S) /\ Becomes(EndRoomsOp(S))
NextExit == CanNextExit(S) /\ Becomes(NextExitOp(S))
EndExits == CanEndExits(S) /\ Becomes(EndExitsOp(S))
NextItem == CanNextItem(S) /\ Becomes(NextItemOp(S))
ItemRaise == CanItemRaise(S) /\ Becomes(ItemRaiseOp(S))
EndItems == CanEndItems(S) /\ Becomes(EndItemsOp(S))
NextPronounSet == CanNextPronounSet(S) /\ Becomes(NextPronounSetOp(S))
EndPronouns == CanEndPronouns(S) /\ Becomes(EndPronounsOp(S))
NextNpc == CanNextNpc(S) /\ Becomes(NextNpcOp(S))
NextDialog == CanNextDialog(S) /\ Becomes(NextDialogOp(S))
EndDialogs == CanEndDialogs(S) /\ Becomes(EndDialogsOp(S))
Close == CanClose(S) /\ Becomes(CloseOp(S))

Next ==
    \/ Open
    \/ World
    \/ NextRoom
    \/ EndRooms
    \/ NextExit
    \/ EndExits
    \/ NextItem
    \/ ItemRaise
    \/ EndItems
    \/ NextPronounSet
    \/ EndPronouns
    \/ NextNpc
    \/ NextDialog
    \/ EndDialogs
    \/ Close

Spec == Init /\ [][Next]_vars

(***************************************************************************)
(* The list formatters on their own: a list is drawn and each formatter    *)
(* is called on it.                                                        *)
(***************************************************************************)
InitFmt ==
    /\ Holds([State(<< >>) EXCEPT !.pc = "call"])
    /\ text_list \in FmtLists
    /\ out = ""

CallMultiline ==
    /\ pc = "call"
    /\ out' = format_multiline_text_list(text_list, "None")
    /\ pc' = "multiline"
    /\ UNCHANGED <<json_data, fp, pending, buffered, disk, stderr, eg, ri, ei, ii, ki, ni,
                   di, text_list>>

CallInline ==
    /\ pc = "call"
    /\ out' = format_inline_text_list(text_list)
    /\ pc' = "inline"
    /\ UNCHANGED <<json_data, fp, pending, buffered, disk, stderr, eg, ri, ei, ii, ki, ni,
                   di, text_list>>

NextFmt == CallMultiline \/ CallInline

SpecFmt == InitFmt /\ [][NextFmt]_vars

(***************************************************************************)
(* Reading the output back.                                                *)
(***************************************************************************)
Indices(seq, x) == SelectSeq([i \in 1..Len(seq) |-> i], LAMBDA i : seq[i] = x)

Count(seq, x) == Len(Indices(seq, x))

\* The text from the last line equal to header to the end of the output.
LastBlock(header) ==
    LET idx == Indices(fp, header)
    IN  SubSeq(fp, idx[Len(idx)], Len(fp))

\* The line k lines below each line equal to header, in output order.
FieldAfter(header, k) ==
    LET idx == Indices(fp, header)
    IN  [j \in 1..Len(idx) |-> fp[idx[j] + k]]

RECURSIVE Flatten(_)
Flatten(ss) == IF Len(ss) = 0 THEN << >> ELSE ss[1] \o Flatten(Tail(ss))

AllExits == Flatten([i \in 1..Len(Rooms(S)) |-> Get(Rooms(S)[i], "exits", << >>)])
AllItems == Flatten([i \in 1..Len(Rooms(S)) |-> Get(Rooms(S)[i], "items", << >>)])
AllDialogs == Flatten([i \in 1..Len(Npcs(S)) |-> Get(Npcs(S)[i], "dialog", << >>)])

LabelLines(elems) ==
    [i \in 1..Len(elems) |->
        "label = \"" \o (IF "label" \in DOMAIN elems[i] THEN elems[i].label ELSE "") \o "\""]

\* The number of bytes of the printed lines, each ended by a newline.
RECURSIVE Bytes(_)
Bytes(lines) ==
    IF Len(lines) = 0 THEN 0
    ELSE IF Len(lines) = 1 THEN Len(lines[1]) + 1
    ELSE LET h == Len(lines) \div 2
         IN  Bytes(SubSeq(lines, 1, h)) + Bytes(SubSeq(lines, h + 1, Len(lines)))

\* The multi-line list of quoted strings, written out from its last element.
RECURSIVE ExpectedElements(_)
ExpectedElements(l) ==
    IF Len(l) = 0 THEN ""
    ELSE ExpectedElements(SubSeq(l, 1, Len(l) - 1)) \o "\t\"" \o l[Len(l)] \o "\",\n"

ExpectedMultiline(l) == IF Len(l) = 0 THEN "[]" ELSE "[\n" \o ExpectedElements(l) \o "]"

\* The NPC whose table was printed last, and the text printed from its header on.
npc == Npcs(S)[ni]
NpcBlock == LastBlock("[[npcs]]")

\* The dialog entry whose table was printed last, and that table.
dia == Dialogs(S)[di]
DialogBlock == LastBlock("[[npcs.dialog]]")

\* The item whose table was printed last, and that table.
it == Items(S)[ii]
ItemBlock == LastBlock("[[rooms.items]]")

(***************************************************************************)
(* C1.  When main() has ended, the tables of the rooms, of the exits, of   *)
(* the items and of the NPCs appear in the output once each and in the     *)
(* order of the input (read off the label, or for an exit the destLabel,   *)
(* under each table header), and there is one dialog table per dialog      *)
(* entry.  The code violates it: a run that raises at an item leaves       *)
(* every later element out.                                                *)
(***************************************************************************)
C1_OrderPreserved ==
    Ended(S) =>
        /\ FieldAfter("[[rooms]]", 1) = LabelLines(Rooms(S))
        /\ FieldAfter("[[rooms.exits]]", 2) =
              [i \in 1..Len(AllExits) |->
                  "destLabel = \"" \o (IF "destLabel" \in DOMAIN AllExits[i]
                                       THEN AllExits[i].destLabel ELSE "") \o "\""]
        /\ FieldAfter("[[rooms.items]]", 1) = LabelLines(AllItems)
        /\ FieldAfter("[[npcs]]", 1) = LabelLines(Npcs(S))
        /\ Count(fp, "[[npcs.dialog]]") = Len(AllDialogs)

(***************************************************************************)
(* C2.  The description block under an item's [[rooms.items]] header holds *)
(* the wrapped text of that item's own description (nothing when the item  *)
(* has none).  The code violates it: the block holds the description of    *)
(* the exit last iterated.                                                 *)
(***************************************************************************)
C2_ItemDescription ==
    (pc = "items" /\ ii > 0) =>
        LET text == IF "description" \in DOMAIN it THEN it.description ELSE ""
        IN  SubSeq(ItemBlock, 5, Len(ItemBlock)) =
                <<"description = '''">> \o wrap(text) \o <<"'''", "">>

(***************************************************************************)
(* C3.  The conversion of a well-typed document never fails, whatever      *)
(* optional fields are missing.  The code violates it: a room with items   *)
(* and no exit iterated before them raises UnboundLocalError.              *)
(***************************************************************************)
C3_NeverFails == pc # "raised"

(***************************************************************************)
(* C4.  Writing to the named file is all-or-nothing: a run that ends with  *)
(* an error has left nothing in the file, a run that ends without one has  *)
(* left the whole output in it.  The code violates it: the text printed    *)
(* before the error is in the file.                                        *)
(***************************************************************************)
C4_AllOrNothing ==
    /\ pc = "raised" => disk = 0
    /\ pc = "done" => disk = Bytes(fp)

(***************************************************************************)
(* C5.  Each NPC gets exactly one pronoun rendering.  When its pronouns    *)
(* value is a plain string (the value of an absent `pronouns` key being    *)
(* the empty string), the line  pronouns = "<value>"  comes right before   *)
(* the description block and there is no [npcs.pronouns] table; otherwise  *)
(* the [npcs.pronouns] table with its five fields comes right after the    *)
(* description block and there is no inline  pronouns =  line.             *)
(***************************************************************************)
PronounNames == {"", "she/her", "it"}

InlinePronounLines == {"pronouns = \"" \o v \o "\"" : v \in PronounNames}

C5_PronounRendering ==
    pc = "dialog" =>
        LET b == NpcBlock
            plain == "pronouns" \notin DOMAIN npc \/ npc.pronouns.type = "str"
            close == Indices(b, "'''")[1]
        IN  IF plain
            THEN /\ b[6] = "pronouns = \""
                            \o (IF "pronouns" \in DOMAIN npc THEN npc.pronouns.val ELSE "")
                            \o "\""
                 /\ b[7] = "description = '''"
                 /\ Cardinality({i \in 1..Len(b) : b[i] \in InlinePronounLines}) = 1
                 /\ Count(b, "[npcs.pronouns]") = 0
            ELSE /\ b[6] = "description = '''"
                 /\ Len(b) >= close + 8
                 /\ SubSeq(b, close + 1, close + 8) =
                       <<"", "[npcs.pronouns]">>
                       \o [i \in 1..5 |->
                              PronounFields[i] \o " = \""
                              \o (IF PronounFields[i] \in DOMAIN npc.pronouns.val
                                  THEN npc.pronouns.val[PronounFields[i]] ELSE "")
                              \o "\""]
                       \o <<"">>
                 /\ Count(b, "[npcs.pronouns]") = 1
                 /\ \A i \in 1..Len(b) : b[i] \notin InlinePronounLines

C5_Witness ==
    /\ pc = "dialog"
    /\ ni = 2
    /\ "pronouns" \in DOMAIN Npcs(S)[1]
    /\ Npcs(S)[1].pronouns.type = "str"
    /\ "pronouns" \in DOMAIN npc
    /\ npc.pronouns.type = "dict"
    /\ Count(fp, "[npcs.pronouns]") = 1
    /\ Count(fp, "pronouns = \"she/her\"") = 1

(***************************************************************************)
(* C6.  The statement as claimed: an NPC gets a [npcs.movement] table if   *)
(* and only if its `movement` key is present and not null.                 *)
(***************************************************************************)
C6_MovementIffPresent ==
    pc = "dialog" =>
        (Count(NpcBlock, "[npcs.movement]") = 1
            <=> ("movement" \in DOMAIN npc /\ npc.movement.type # "NoneType"))

(***************************************************************************)
(* C6, amended.  An NPC gets a [npcs.movement] table unless its `movement` *)
(* is null: an NPC with no `movement` key gets the table of the empty      *)
(* movement.  The table holds the action (the input's, or "STATIC" when    *)
(* it has none), then a multi-line list for exactly those of path,         *)
(* allowedRooms, forbiddenRooms that are keys of the movement, in that     *)
(* order, then an empty line.                                              *)
(***************************************************************************)
MovementKeys == <<"path", "allowedRooms", "forbiddenRooms">>

C6_MovementUnlessNull ==
    pc = "dialog" =>
        LET b == NpcBlock
            null == "movement" \in DOMAIN npc /\ npc.movement.type = "NoneType"
            m == IF "movement" \in DOMAIN npc THEN npc.movement.val ELSE << >>
            present == SelectSeq(MovementKeys, LAMBDA k : k \in DOMAIN m)
            at == Indices(b, "[npcs.movement]")
        IN  IF null
            THEN Len(at) = 0
            ELSE /\ Len(at) = 1
                 /\ Len(b) >= at[1] + 2 + Len(present)
                 /\ SubSeq(b, at[1], at[1] + 2 + Len(present)) =
                       <<"[npcs.movement]",
                         "action = \""
                         \o (IF "action" \in DOMAIN m THEN m.action ELSE "STATIC") \o "\"">>
                       \o [i \in 1..Len(present) |->
                              present[i] \o " = " \o ExpectedMultiline(m[present[i]])]
                       \o <<"">>
                 /\ (di = 0 => Len(b) = at[1] + 2 + Len(present))

C6_Witness ==
    /\ pc = "dialog"
    /\ "movement" \notin DOMAIN npc
    /\ Count(NpcBlock, "[npcs.movement]") = 1
    /\ Count(NpcBlock, "action = \"STATIC\"") = 1

(***************************************************************************)
(* C7.  The statement as claimed: the choices of a dialog entry, plain     *)
(* strings, are printed as a multi-line list with each choice as one       *)
(* quoted string on its own line.                                          *)
(***************************************************************************)
HasChoices == pc = "dialog" /\ di > 0 /\ dia.type = "dict" /\ "choices" \in DOMAIN dia.val

C7_ChoicesQuoted ==
    (HasChoices /\ \A i \in 1..Len(dia.val.choices) : dia.val.choices[i].type = "str") =>
        DialogBlock[Len(DialogBlock) - 1] =
            "choices = "
            \o ExpectedMultiline([i \in 1..Len(dia.val.choices) |-> dia.val.choices[i].val])

(***************************************************************************)
(* C7, amended.  The choices of a dialog entry are printed as a multi-line *)
(* list ("[]" when there is none) with, for each choice in order, one line *)
(* made of a tab, the choice as an inline list and a comma: the inline     *)
(* list of its elements when the choice is a list of strings, and the      *)
(* inline list of its separate characters when the choice is a plain       *)
(* string, so that "yes" is printed as ["y", "e", "s"].                    *)
(***************************************************************************)
RECURSIVE CommaSeparated(_)
CommaSeparated(l) ==
    IF Len(l) = 0 THEN ""
    ELSE IF Len(l) = 1 THEN "\"" \o l[1] \o "\""
    ELSE CommaSeparated(SubSeq(l, 1, Len(l) - 1)) \o ", \"" \o l[Len(l)] \o "\""

RECURSIVE ExpectedChoices(_)
ExpectedChoices(cs) ==
    IF Len(cs) = 0 THEN ""
    ELSE LET c == cs[Len(cs)]
         IN  ExpectedChoices(SubSeq(cs, 1, Len(cs) - 1))
             \o "\t[" \o CommaSeparated(IF c.type = "str" THEN Chars(c.val) ELSE c.val)
             \o "],\n"

C7_ChoicesInline ==
    HasChoices =>
        /\ DialogBlock[Len(DialogBlock) - 1] =
              "choices = "
              \o (IF Len(dia.val.choices) = 0 THEN "[]"
                  ELSE "[\n" \o ExpectedChoices(dia.val.choices) \o "]")
        /\ dia.val.choices = <<PyStr("yes"), PyStr("no")>> =>
              DialogBlock[Len(DialogBlock) - 1] =
                  "choices = [\n\t[\"y\", \"e\", \"s\"],\n\t[\"n\", \"o\"],\n]"

C7_Witness ==
    /\ HasChoices
    /\ dia.val.choices = <<PyStr("yes"), PyStr("no")>>
    /\ Count(DialogBlock, "choices = [\n\t[\"y\", \"e\", \"s\"],\n\t[\"n\", \"o\"],\n]") = 1

(***************************************************************************)
(* C8.  The table of a dialog entry holds a line for exactly those of      *)
(* label, action, content, response, choices that are keys of the entry    *)
(* and no line for the others; the table of an entry given as the bare     *)
(* string s holds the one field  content = "s".                            *)
(***************************************************************************)
DialogScalars == {"label", "action", "content", "response"}

DialogTexts == {"", "Hello!", "ASK", "CHOICE", "Well?", "END", "Bye", "..."}

ScalarLines(k) == {k \o " = \"" \o v \o "\"" : v \in DialogTexts}

C8_DialogFields ==
    (pc = "dialog" /\ di > 0) =>
        LET b == DialogBlock
        IN  IF dia.type = "str"
            THEN b = <<"[[npcs.dialog]]", "content = \"" \o dia.val \o "\"", "">>
            ELSE LET d == dia.val
                     keys == DOMAIN d \cap (DialogScalars \cup {"choices"})
                 IN  /\ b[1] = "[[npcs.dialog]]"
                     /\ b[Len(b)] = ""
                     /\ Len(b) = 2 + Cardinality(keys)
                     /\ \A k \in DialogScalars :
                           IF k \in DOMAIN d
                           THEN Count(b, k \o " = \"" \o d[k] \o "\"") = 1
                           ELSE \A i \in 1..Len(b) : b[i] \notin ScalarLines(k)
                     /\ "choices" \in DOMAIN d =>
                           \A k \in DialogScalars : b[Len(b) - 1] \notin ScalarLines(k)

C8_Witness ==
    /\ pc = "dialog"
    /\ ni = 2
    /\ di = 1
    /\ dia.type = "dict"
    /\ DOMAIN dia.val = {"action", "response"}
    /\ DialogBlock = <<"[[npcs.dialog]]", "action = \"END\"", "response = \"Bye\"", "">>
    /\ Count(fp, "content = \"Hello!\"") = 1

(***************************************************************************)
(* C9.  When the document has no `start` key, the [world] table of the     *)
(* output holds  start = "" , the warning is on the error channel and not  *)
(* in the output, and the conversion goes on: it ends as the conversion    *)
(* of the same document with a `start` ends, with the same output after    *)
(* the [world] table.                                                      *)
(***************************************************************************)
C9_MissingStart ==
    ("start" \notin DOMAIN json_data /\ pc \notin {"open", "world", "call", "multiline", "inline"}) =>
        /\ Len(fp) >= 7
        /\ SubSeq(fp, 1, 7) = <<"format = \"TUNA\"", "type = \"DATA\"", "",
                                "[world]", "start = \"\"", "", "">>
        /\ stderr = <<WARN>>
        /\ Count(fp, WARN) = 0
        /\ Ended(S) =>
              LET t == Run(State(("start" :> "Cave") @@ json_data))
              IN  /\ pc = t.pc
                  /\ t.fp[5] = "start = \"Cave\""
                  /\ SubSeq(fp, 8, Len(fp)) = SubSeq(t.fp, 8, Len(t.fp))
                  /\ disk = Bytes(fp)

C9_Witness ==
    /\ "start" \notin DOMAIN json_data
    /\ pc = "done"
    /\ Len(Rooms(S)) = 2
    /\ Len(PronounSets(S)) = 2
    /\ Len(Npcs(S)) = 1
    /\ fp[5] = "start = \"\""
    /\ Count(fp, "[[rooms]]") = 2
    /\ Count(fp, "[[npcs]]") = 1
    /\ stderr = <<WARN>>

(***************************************************************************)
(* C10.  The statement as claimed: the multi-line formatter with the       *)
(* default element formatter returns "[", a newline and "]" for the empty  *)
(* list, and for a non-empty list "[", a newline, one line per element     *)
(* (a tab, the element in double quotes, a comma) and "]".                 *)
(***************************************************************************)
C10_EmptyIsBracketNewlineBracket ==
    pc = "multiline" =>
        out = "[\n" \o ExpectedElements(text_list) \o "]"

(***************************************************************************)
(* C10, amended.  The multi-line formatter with the default element        *)
(* formatter returns "[]" for the empty list, with no newline; and for a   *)
(* non-empty list "[", a newline, one line per element in order (a tab,    *)
(* the element in double quotes, a comma) and "]".                         *)
(***************************************************************************)
C10_Multiline ==
    pc = "multiline" =>
        /\ out = ExpectedMultiline(text_list)
        /\ text_list = << >> => out = "[]"
        /\ text_list = <<"n", "go north">> => out = "[\n\t\"n\",\n\t\"go north\",\n]"

C10_Witness == pc = "multiline" /\ text_list = << >> /\ out = "[]"

====
